---- MODULE Spec2Model ----
(***************************************************************************)
(* Model of the chat endpoint (app/api/chat/route.ts) and of the chat page *)
(* (ChatPage) of the deep-search application.                              *)
(*                                                                         *)
(*   SpecPost / SpecSerial : the POST handler, its await points and the    *)
(*                           request log shared by concurrent requests     *)
(*   SpecStream            : the step loop that the streamText call of     *)
(*                           route.ts configures (tool, maxRetries,        *)
(*                           stopWhen), and the event stream it writes     *)
(*   SpecChat              : the input form of ChatPage and the status of  *)
(*                           its useChat hook                              *)
(*   SpecRender            : the messages of ChatPage while a response is  *)
(*                           folded into them, what the page renders for   *)
(*                           them, and the expand flags of result lists    *)
(***************************************************************************)
EXTENDS Integers, Sequences, FiniteSets, Bags, TLC

(* ------------------------------ bounds -------------------------------- *)
\* env.DAILY_REQUEST_LIMIT: a deployment setting, any value is possible
DAILY_LIMIT == 1
\* request handlers that may be between their first and last await at once
MaxInFlight == 2
\* requests that arrive in one behaviour
MaxRequests == 3
\* clock ticks per day and the last tick of the clock
TicksPerDay == 2
MaxNow == 2
\* text deltas and tool calls the model may produce in one step
MaxDeltas == 1
MaxCalls == 1
\* organic results the search provider may return
MaxItems == 1
\* events the response stream buffers before the writer waits
MaxWire == 2
\* characters the chat input may hold, and messages sent in one behaviour
MaxInputLen == 2
MaxSends == 2
\* parts that one assistant message may hold
MaxParts == 3

(* ------------------------------ POST ---------------------------------- *)
VARIABLES
  req,          \* slot -> the state of the POST invocation running in it
  requestLogs,  \* table requestLogs: a bag of rows [userId, createdAt]
  now,          \* the clock of the data store
  served,       \* requests that have arrived so far
  gateSeq,      \* identity -> requests of it that reached the rate limit today
  windowPeak    \* identity -> most requests of it at once between count and insert

postVars == <<req, requestLogs, now, served, gateSeq, windowPeak>>

VARIABLES
  phase,     \* Idle, Generating, ToolExecuting, Finished, Failed
  gen,       \* within a step: "call" (model call pending), "stream", "closing"
  steps,     \* steps completed = step boundaries emitted
  attempt,   \* retries made for the pending model call
  deltas,    \* text deltas emitted in the current step
  calls,     \* tool calls of the current step: index -> [state, failed, output]
  failure,   \* why the request failed ("" while it has not)
  wire,      \* the response stream: events written and not yet read by the client
  rxStarted, \* client: calls of the current step whose tool-call-start arrived
  rxResults, \* client: calls of the current step whose tool-call-result arrived
  aborted    \* the client has aborted the request (closed the connection)

streamVars == <<phase, gen, steps, attempt, deltas, calls, failure, wire,
                rxStarted, rxResults, aborted>>

VARIABLES
  input,            \* useState(""): the text of the chat input
  status,           \* useChat status: ready, submitted, streaming, error
  isAuthenticated,  \* !!session?.user
  showSignInModal,  \* useState(false)
  inFlight,         \* requests sent whose response stream has not ended
  sent,             \* sendMessage calls so far
  awaiting          \* onFormSubmit invocations suspended at await sendMessage

chatVars == <<input, status, isAuthenticated, showSignInModal, inFlight, sent, awaiting>>

VARIABLES
  messages,         \* useChat messages: the assistant messages, [id, parts]
  expandedResults,  \* useState({}): key -> expanded flag, for the keys ever toggled
  carried           \* the keys that were expanded when the page was last mounted anew

pageVars == <<messages, expandedResults, carried>>

Slots == 1..MaxInFlight

\* table users: id -> row
users == [alice |-> [isAdmin |-> FALSE], root |-> [isAdmin |-> TRUE]]
UserIds == DOMAIN users
\* what auth() may resolve to: no session user id, an id without a row, a known id
NoSession == "none"
SessionIds == {NoSession, "ghost"} \cup UserIds

NotQueried == 0 - 1

IdleReq == [pc |-> "idle", userId |-> NoSession, isAdmin |-> FALSE,
            reqCount |-> NotQueried, countedAt |-> NotQueried, ordinal |-> 0,
            status |-> 0, error |-> "", inserted |-> 0, modelCalled |-> FALSE]

RECURSIVE SumRows(_, _)
SumRows(bag, rows) ==
  IF rows = {} THEN 0
  ELSE LET r == CHOOSE x \in rows : TRUE
       IN bag[r] + SumRows(bag, rows \ {r})

\* (variant: a window of one day that slides with the clock)
DateTruncSliding(t) == t - TicksPerDay + 1

\* date_trunc('day', now())
DateTruncDay(t) == (t \div TicksPerDay) * TicksPerDay

\* (variant: the query lacks the userId condition)
TodayRowsAnyUser(logs, uid, t) ==
  {row \in DOMAIN logs : row.createdAt >= DateTruncDay(t)}

\* the rows the count query selects
TodayRows(logs, uid, t) ==
  {row \in DOMAIN logs : row.userId = uid /\ row.createdAt >= DateTruncDay(t)}

\* select count(*) from requestLogs where userId = uid and createdAt >= start of day
CountToday(logs, uid, t) == SumRows(logs, TodayRows(logs, uid, t))

\* (variant: the comparison is strict)
OverLimitStrict(reqCount) == reqCount > DAILY_LIMIT

\* reqCount >= DAILY_LIMIT
OverLimit(reqCount) == reqCount >= DAILY_LIMIT

\* db.insert(requestLogs).values({ userId })
InsertLog(logs, uid, t) == logs (+) SetToBag({[userId |-> uid, createdAt |-> t]})

Respond(r, code, msg) ==
  [req[r] EXCEPT !.pc = "done", !.status = code, !.error = msg]

InitPost ==
  /\ req = [r \in Slots |-> IdleReq]
  /\ requestLogs = EmptyBag
  /\ now = 0
  /\ served = 0
  /\ gateSeq = [u \in UserIds |-> 0]
  /\ windowPeak = [u \in UserIds |-> 0]

\* a request arrives and its handler starts
Start(r) ==
  /\ req[r].pc \in {"idle", "done"}
  /\ served < MaxRequests
  /\ served' = served + 1
  /\ req' = [req EXCEPT ![r] = [IdleReq EXCEPT !.pc = "auth"]]
  /\ UNCHANGED <<requestLogs, now, gateSeq, windowPeak, streamVars, chatVars, pageVars>>

\* const session = await auth(); if (!session?.user?.id) return 401
Auth(r) ==
  /\ req[r].pc = "auth"
  /\ \E sid \in SessionIds :
       req' = [req EXCEPT ![r] =
                 IF sid = NoSession
                 THEN Respond(r, 401, "Unauthorized")
                 ELSE [req[r] EXCEPT !.pc = "lookup", !.userId = sid]]
  /\ UNCHANGED <<requestLogs, now, served, gateSeq, windowPeak, streamVars, chatVars, pageVars>>

\* (variant: a missing row is not rejected)
LookupUnchecked(r) ==
  /\ req[r].pc = "lookup"
  /\ req' = [req EXCEPT ![r] =
               [req[r] EXCEPT !.pc = "parse",
                              !.isAdmin = IF req[r].userId \in UserIds
                                          THEN users[req[r].userId].isAdmin ELSE FALSE]]
  /\ UNCHANGED <<requestLogs, now, served, gateSeq, windowPeak, streamVars, chatVars, pageVars>>

\* const [dbUser] = await db.select()...; if (!dbUser) return 401
Lookup(r) ==
  /\ req[r].pc = "lookup"
  /\ req' = [req EXCEPT ![r] =
               IF req[r].userId \notin UserIds
               THEN Respond(r, 401, "User not found")
               ELSE [req[r] EXCEPT !.pc = "parse",
                                   !.isAdmin = users[req[r].userId].isAdmin]]
  /\ UNCHANGED <<requestLogs, now, served, gateSeq, windowPeak, streamVars, chatVars, pageVars>>

\* const { messages } = await request.json(); an empty or missing list throws.
\* Then the rate limit is reached: admins skip the count query.
Parse(r) ==
  /\ req[r].pc = "parse"
  /\ \E bodyOk \in BOOLEAN :
       IF ~bodyOk
       THEN /\ req' = [req EXCEPT ![r] = Respond(r, 500, "No messages provided")]
            /\ UNCHANGED gateSeq
       ELSE /\ req' = [req EXCEPT ![r] =
                         [req[r] EXCEPT !.pc = IF req[r].isAdmin THEN "insert" ELSE "count",
                                        !.ordinal = gateSeq[req[r].userId] + 1]]
            /\ gateSeq' = [gateSeq EXCEPT ![req[r].userId] = @ + 1]
  /\ UNCHANGED <<requestLogs, now, served, windowPeak, streamVars, chatVars, pageVars>>

\* (variant: the request is recorded before the limit is compared)
CountRecordFirst(r) ==
  /\ req[r].pc = "count"
  /\ LET n == CountToday(requestLogs, req[r].userId, now)
         q == [req[r] EXCEPT !.reqCount = n, !.countedAt = now, !.inserted = @ + 1]
     IN req' = [req EXCEPT ![r] =
                  IF OverLimit(n)
                  THEN [q EXCEPT !.pc = "done", !.status = 429,
                                 !.error = "Daily request limit reached"]
                  ELSE [q EXCEPT !.pc = "done", !.status = 200, !.modelCalled = TRUE]]
  /\ requestLogs' = InsertLog(requestLogs, req[r].userId, now)
  /\ UNCHANGED <<now, served, gateSeq, windowPeak, streamVars, chatVars, pageVars>>

\* requests of one identity that have read their count and not yet inserted
InWindow(rq, uid) ==
  Cardinality({o \in Slots : rq[o].pc = "insert" /\ rq[o].userId = uid
                                /\ rq[o].reqCount # NotQueried})

\* the count query and the comparison with DAILY_LIMIT that follows it
Count(r) ==
  /\ req[r].pc = "count"
  /\ LET n == CountToday(requestLogs, req[r].userId, now)
         q == [req[r] EXCEPT !.reqCount = n, !.countedAt = now]
     IN req' = [req EXCEPT ![r] =
                  IF OverLimit(n)
                  THEN [q EXCEPT !.pc = "done", !.status = 429,
                                 !.error = "Daily request limit reached"]
                  ELSE [q EXCEPT !.pc = "insert"]]
  /\ windowPeak' = [windowPeak EXCEPT ![req[r].userId] =
                      IF InWindow(req', req[r].userId) > @
                      THEN InWindow(req', req[r].userId) ELSE @]
  /\ UNCHANGED <<requestLogs, now, served, gateSeq, streamVars, chatVars, pageVars>>

\* (variant: the insert sits inside the block that admins skip)
InsertNonAdminOnly(r) ==
  /\ req[r].pc = "insert"
  /\ requestLogs' = IF req[r].isAdmin THEN requestLogs
                    ELSE InsertLog(requestLogs, req[r].userId, now)
  /\ req' = [req EXCEPT ![r] =
               [req[r] EXCEPT !.pc = "done", !.status = 200,
                              !.inserted = IF req[r].isAdmin THEN @ ELSE @ + 1,
                              !.modelCalled = TRUE]]
  /\ UNCHANGED <<now, served, gateSeq, windowPeak, streamVars, chatVars, pageVars>>

\* await db.insert(requestLogs); streamText(...); return the stream response
Insert(r) ==
  /\ req[r].pc = "insert"
  /\ requestLogs' = InsertLog(requestLogs, req[r].userId, now)
  /\ req' = [req EXCEPT ![r] =
               [req[r] EXCEPT !.pc = "done", !.status = 200,
                              !.inserted = @ + 1, !.modelCalled = TRUE]]
  /\ UNCHANGED <<now, served, gateSeq, windowPeak, streamVars, chatVars, pageVars>>

\* the clock of the data store advances; a new day resets the per-day ordinals
Tick ==
  /\ now < MaxNow
  /\ now' = now + 1
  /\ gateSeq' = IF DateTruncDay(now + 1) # DateTruncDay(now)
                THEN [u \in UserIds |-> 0] ELSE gateSeq
  /\ UNCHANGED <<req, requestLogs, served, windowPeak, streamVars, chatVars, pageVars>>

Quiet == \A r \in Slots : req[r].pc \in {"idle", "done"}

Step(r) == Auth(r) \/ Lookup(r) \/ Parse(r) \/ Count(r) \/ Insert(r)

(* --------------------------- streamText -------------------------------- *)
\* (variant: the retry cap is one short)
maxRetriesShort == 3 - 1
\* maxRetries: 3
maxRetries == 3
\* (variant: the step count is compared strictly)
stopWhenStrict(stepCount) == stepCount > 10
\* stopWhen: stepCountIs(10)
stopWhen(stepCount) == stepCount >= 10

FailureKinds == {"network error", "provider error", "aborted"}

\* what searchSerper({ q, num }, abortSignal) may do: resolve with organic
\* results, or reject with an error
Titles == {"T", "Search error"}
Organic(n, title) ==
  [i \in 1..n |-> [title |-> title, link |-> "https://l", snippet |-> "S", position |-> i]]
SearchOutcomes ==
  {[ok |-> TRUE, organic |-> Organic(n, t), message |-> ""] : n \in 0..MaxItems, t \in Titles}
    \cup {[ok |-> FALSE, organic |-> <<>>, message |-> m] : m \in FailureKinds}

ErrorItem(message) == [title |-> "Search error", link |-> "", snippet |-> message]

\* (variant: the catch block rethrows)
executeRethrow(outcome) ==
  IF outcome.ok
  THEN [thrown |-> FALSE,
        value |-> [i \in DOMAIN outcome.organic |->
                     [title |-> outcome.organic[i].title,
                      link |-> outcome.organic[i].link,
                      snippet |-> outcome.organic[i].snippet]]]
  ELSE [thrown |-> TRUE, value |-> <<>>]

\* searchWeb.execute: map the organic results, or catch and return one error item
execute(outcome) ==
  IF outcome.ok
  THEN [thrown |-> FALSE,
        value |-> [i \in DOMAIN outcome.organic |->
                     [title |-> outcome.organic[i].title,
                      link |-> outcome.organic[i].link,
                      snippet |-> outcome.organic[i].snippet]]]
  ELSE [thrown |-> FALSE, value |-> <<ErrorItem(outcome.message)>>]

\* the abortSignal option of the streamText call, which is what execute receives
\* as { abortSignal }: the call passes none (request.signal is not used)
NoSignal == "undefined"
abortSignal == NoSignal
AbortSignalFired == aborted /\ abortSignal # NoSignal

\* a search that is in flight when its signal has fired is rejected as aborted
OpenOutcomes ==
  IF AbortSignalFired
  THEN {o \in SearchOutcomes : ~o.ok /\ o.message = "aborted"}
  ELSE SearchOutcomes

NoCall == 0
Event(type, id, text) == [type |-> type, step |-> IF id = NoCall THEN 0 ELSE steps + 1,
                          call |-> id, text |-> text]
CanEmit == Len(wire) < MaxWire
Emit(e) == wire' = Append(wire, e)

NoCalls == [k \in {} |-> 0]
Terminal == phase \in {"Finished", "Failed"}

InitStream ==
  /\ phase = "Idle"
  /\ gen = "call"
  /\ steps = 0
  /\ attempt = 0
  /\ deltas = 0
  /\ calls = NoCalls
  /\ failure = ""
  /\ wire = <<>>
  /\ rxStarted = {}
  /\ rxResults = {}
  /\ aborted = FALSE

\* streamText(...) starts the first step
BeginStream ==
  /\ phase = "Idle"
  /\ phase' = "Generating"
  /\ UNCHANGED <<gen, steps, attempt, deltas, calls, failure, wire, rxStarted, rxResults, aborted, postVars, chatVars, pageVars>>

\* the model call of a step succeeds: the model starts to stream
ModelCallOk ==
  /\ phase = "Generating" /\ gen = "call"
  /\ gen' = "stream"
  /\ attempt' = 0
  /\ deltas' = 0
  /\ calls' = NoCalls
  /\ UNCHANGED <<phase, steps, failure, wire, rxStarted, rxResults, aborted, postVars, chatVars, pageVars>>

\* the model call fails with a retryable error and retries are left
ModelCallRetry ==
  /\ phase = "Generating" /\ gen = "call"
  /\ attempt < maxRetries
  /\ attempt' = attempt + 1
  /\ UNCHANGED <<phase, gen, steps, deltas, calls, failure, wire, rxStarted, rxResults, aborted, postVars, chatVars, pageVars>>

\* the model call fails for good: retries exhausted, or the error is not
\* retryable. onError logs the error; the stream carries an error event and ends
ModelCallFail ==
  /\ phase = "Generating" /\ gen = "call"
  /\ CanEmit
  /\ \E retryable \in BOOLEAN :
       /\ retryable => attempt >= maxRetries
       /\ failure' = IF retryable THEN "retries exhausted" ELSE "not retryable"
       /\ Emit(Event("error", NoCall, failure'))
  /\ phase' = "Failed"
  /\ UNCHANGED <<gen, steps, attempt, deltas, calls, rxStarted, rxResults, aborted, postVars, chatVars, pageVars>>

\* (variant: a delta may still be written once the generation is closing or over)
TextDeltaLate ==
  /\ gen \in {"stream", "closing"}
  /\ deltas < MaxDeltas
  /\ CanEmit
  /\ deltas' = deltas + 1
  /\ Emit(Event("text-delta", NoCall, "x"))
  /\ UNCHANGED <<phase, gen, steps, attempt, calls, failure, rxStarted, rxResults, aborted, postVars, chatVars, pageVars>>

\* the model emits a text delta; it is forwarded at once
TextDelta ==
  /\ phase = "Generating" /\ gen = "stream"
  /\ deltas < MaxDeltas
  /\ CanEmit
  /\ deltas' = deltas + 1
  /\ Emit(Event("text-delta", NoCall, "x"))
  /\ UNCHANGED <<phase, gen, steps, attempt, calls, failure, rxStarted, rxResults, aborted, postVars, chatVars, pageVars>>

\* the model requests a call of searchWeb
ToolCallStart ==
  /\ phase = "Generating" /\ gen = "stream"
  /\ Len(calls) < MaxCalls
  /\ CanEmit
  /\ calls' = Append(calls, [state |-> "input-streaming", failed |-> FALSE, output |-> <<>>])
  /\ Emit(Event("tool-call-start", Len(calls) + 1, ""))
  /\ UNCHANGED <<phase, gen, steps, attempt, deltas, failure, rxStarted, rxResults, aborted, postVars, chatVars, pageVars>>

\* the input of a tool call is complete
ToolInputReady(k) ==
  /\ phase = "Generating" /\ gen = "stream"
  /\ k \in DOMAIN calls /\ calls[k].state = "input-streaming"
  /\ calls' = [calls EXCEPT ![k].state = "input-available"]
  /\ UNCHANGED <<phase, gen, steps, attempt, deltas, failure, wire, rxStarted, rxResults, aborted, postVars, chatVars, pageVars>>

\* the model ends its output for the step: with tool calls requested the tool
\* runs, without any the step and the generation are complete
ModelStepEnd ==
  /\ phase = "Generating" /\ gen = "stream"
  /\ \A k \in DOMAIN calls : calls[k].state = "input-available"
  /\ IF calls = NoCalls
     THEN /\ CanEmit
          /\ Emit(Event("step-boundary", NoCall, ""))
          /\ steps' = steps + 1
          /\ gen' = "closing"
          /\ phase' = phase
     ELSE /\ phase' = "ToolExecuting"
          /\ UNCHANGED <<gen, steps, wire>>
  /\ UNCHANGED <<attempt, deltas, calls, failure, rxStarted, rxResults, aborted, postVars, chatVars, pageVars>>

\* execute() of one tool call settles and its result is written to the stream
ToolSettle(k) ==
  /\ phase = "ToolExecuting"
  /\ k \in DOMAIN calls /\ calls[k].state = "input-available"
  /\ CanEmit
  /\ \E outcome \in OpenOutcomes :
       LET res == execute(outcome)
       IN calls' = [calls EXCEPT ![k] =
                      [state |-> IF res.thrown THEN "output-error" ELSE "output-available",
                       failed |-> ~outcome.ok,
                       output |-> res.value]]
  /\ Emit(Event("tool-call-result", k, ""))
  /\ UNCHANGED <<phase, gen, steps, attempt, deltas, failure, rxStarted, rxResults, aborted, postVars, chatVars, pageVars>>

\* all tool calls of the step have settled: the step is complete, and the next
\* one begins unless stopWhen holds
StepFinish ==
  /\ phase = "ToolExecuting"
  /\ \A k \in DOMAIN calls : calls[k].state \in {"output-available", "output-error"}
  /\ CanEmit
  /\ Emit(Event("step-boundary", NoCall, ""))
  /\ steps' = steps + 1
  /\ phase' = "Generating"
  /\ gen' = IF stopWhen(steps + 1) THEN "closing" ELSE "call"
  /\ UNCHANGED <<attempt, deltas, calls, failure, rxStarted, rxResults, aborted, postVars, chatVars, pageVars>>

\* the generation is complete: done is written and the stream is closed
Finish ==
  /\ phase = "Generating" /\ gen = "closing"
  /\ CanEmit
  /\ Emit(Event("done", NoCall, ""))
  /\ phase' = "Finished"
  /\ UNCHANGED <<gen, steps, attempt, deltas, calls, failure, rxStarted, rxResults, aborted, postVars, chatVars, pageVars>>

\* the client notes which tool calls of the current step have started and which
\* have a result; a step boundary closes the step
Receive(e) ==
  /\ rxStarted' = IF e.type = "tool-call-start" THEN rxStarted \cup {<<e.step, e.call>>}
                  ELSE IF e.type = "step-boundary" THEN {} ELSE rxStarted
  /\ rxResults' = IF e.type = "tool-call-result" THEN rxResults \cup {<<e.step, e.call>>}
                  ELSE IF e.type = "step-boundary" THEN {} ELSE rxResults

\* (variant: the client is handed any buffered event, not the oldest)
DeliverAny ==
  /\ ~aborted
  /\ wire # <<>>
  /\ \E i \in DOMAIN wire :
       /\ wire' = [j \in 1..(Len(wire) - 1) |-> IF j < i THEN wire[j] ELSE wire[j + 1]]
       /\ Receive(wire[i])
  /\ UNCHANGED <<phase, gen, steps, attempt, deltas, calls, failure, aborted, postVars, chatVars, pageVars>>

\* the client reads the next event of the response stream
Deliver ==
  /\ ~aborted
  /\ wire # <<>>
  /\ wire' = Tail(wire)
  /\ Receive(Head(wire))
  /\ UNCHANGED <<phase, gen, steps, attempt, deltas, calls, failure, aborted, postVars, chatVars, pageVars>>

\* the client aborts the request while it is in flight (navigation away): it
\* stops reading the response stream
ClientAbort ==
  /\ ~Terminal
  /\ ~aborted
  /\ aborted' = TRUE
  /\ UNCHANGED <<phase, gen, steps, attempt, deltas, calls, failure, wire,
                 rxStarted, rxResults, postVars, chatVars, pageVars>>

(* ----------------------------- ChatPage -------------------------------- *)
\* the input is a string of blanks and letters
Chars == {"sp", "a"}
Inputs == UNION {[1..n -> Chars] : n \in 0..MaxInputLen}

RECURSIVE TrimStart(_)
TrimStart(str) ==
  IF str # <<>> /\ Head(str) = "sp" THEN TrimStart(Tail(str)) ELSE str
RECURSIVE TrimEnd(_)
TrimEnd(str) ==
  IF str # <<>> /\ str[Len(str)] = "sp" THEN TrimEnd(SubSeq(str, 1, Len(str) - 1)) ELSE str
\* String.prototype.trim
Trim(str) == TrimEnd(TrimStart(str))

Busy == status = "streaming" \/ status = "submitted"

\* <input disabled={...}>
InputDisabled == Busy \/ ~isAuthenticated
\* <button type="submit" disabled={...}>
SubmitDisabled == Busy \/ Trim(input) = <<>> \/ ~isAuthenticated

\* (variant: the handler does not look at the status)
onFormSubmitReturnsUnguarded == Trim(input) = <<>>

\* if (!input?.trim() || status === "streaming" || status === "submitted") return
onFormSubmitReturns == Trim(input) = <<>> \/ Busy

InitChat ==
  /\ input = <<>>
  /\ status = "ready"
  /\ isAuthenticated = FALSE
  /\ showSignInModal = FALSE
  /\ inFlight = 0
  /\ sent = 0
  /\ awaiting = 0

\* onChange of the input (an enabled input only)
SetInput ==
  /\ ~InputDisabled
  /\ \E v \in Inputs : input' = v
  /\ UNCHANGED <<status, isAuthenticated, showSignInModal, inFlight, sent, awaiting,
                 postVars, streamVars, pageVars>>

\* the session appears or goes away
SessionChange ==
  /\ isAuthenticated' = ~isAuthenticated
  /\ UNCHANGED <<input, status, showSignInModal, inFlight, sent, awaiting,
                 postVars, streamVars, pageVars>>

\* sendMessage of useChat: a request is sent and the status becomes submitted
SendMessage ==
  /\ status' = "submitted"
  /\ inFlight' = inFlight + 1
  /\ sent' = sent + 1

\* onFormSubmit, up to its await: a submit event of the form, however raised
FormSubmit ==
  /\ sent < MaxSends
  /\ IF onFormSubmitReturns
     THEN UNCHANGED <<status, showSignInModal, inFlight, sent, awaiting>>
     ELSE IF ~isAuthenticated
          THEN /\ showSignInModal' = TRUE
               /\ UNCHANGED <<status, inFlight, sent, awaiting>>
          ELSE /\ SendMessage
               /\ awaiting' = awaiting + 1
               /\ UNCHANGED showSignInModal
  /\ UNCHANGED <<input, isAuthenticated, postVars, streamVars, pageVars>>

\* onFormSubmit after await sendMessage, which settles when the response stream
\* has ended: setInput("")
FormSubmitResume ==
  /\ awaiting > inFlight
  /\ awaiting' = awaiting - 1
  /\ input' = <<>>
  /\ UNCHANGED <<status, isAuthenticated, showSignInModal, inFlight, sent,
                 postVars, streamVars, pageVars>>

\* onClose of SignInModal
CloseModal ==
  /\ showSignInModal
  /\ showSignInModal' = FALSE
  /\ UNCHANGED <<input, status, isAuthenticated, inFlight, sent, awaiting,
                 postVars, streamVars, pageVars>>

\* ids that useChat gives to the assistant messages of one conversation
MsgIds == 1..MaxSends
UsedIds == {messages[i].id : i \in DOMAIN messages}

\* useChat: the first chunk of the response arrives and the assistant message
\* it starts is added to the messages
StreamFirstChunk ==
  /\ status = "submitted"
  /\ status' = "streaming"
  /\ \E id \in MsgIds \ UsedIds : messages' = Append(messages, [id |-> id, parts |-> <<>>])
  /\ UNCHANGED <<input, isAuthenticated, showSignInModal, inFlight, sent, awaiting,
                 expandedResults, carried, postVars, streamVars>>

\* useChat: the response stream ends with its finish event
StreamEnd ==
  /\ Busy /\ inFlight > 0
  /\ status' = "ready"
  /\ inFlight' = inFlight - 1
  /\ UNCHANGED <<input, isAuthenticated, showSignInModal, sent, awaiting,
                 postVars, streamVars, pageVars>>

\* useChat: the request fails, or its stream carries an error or breaks off
StreamError ==
  /\ Busy /\ inFlight > 0
  /\ status' = "error"
  /\ inFlight' = inFlight - 1
  /\ UNCHANGED <<input, isAuthenticated, showSignInModal, sent, awaiting,
                 postVars, streamVars, pageVars>>

(* ------------------------ ChatPage: messages --------------------------- *)
\* the tool call ids of one response, and the text of one delta
ToolCallIds == {"c1", "c2"}
Delta == "x"

TextPart(t) ==
  [type |-> "text", text |-> t, toolCallId |-> "", state |-> "", output |-> <<>>]
ToolPart(c, st, out) ==
  [type |-> "tool-searchWeb", text |-> <<>>, toolCallId |-> c, state |-> st, output |-> out]

\* useState<Record<string, boolean>>({})
NoFlags == [k \in {} |-> FALSE]

InitPage ==
  /\ messages = <<>>
  /\ expandedResults = NoFlags
  /\ carried = {}

\* the message that the response being read is folded into
Folding == status = "streaming" /\ messages # <<>>
Last == messages[Len(messages)]
SetParts(ps) == messages' = [messages EXCEPT ![Len(messages)].parts = ps]
PartOf(c) == {i \in DOMAIN Last.parts : Last.parts[i].toolCallId = c}

\* a text delta extends the text part that is being written, or starts one when
\* the last part is not a text part
FoldTextDelta ==
  /\ Folding
  /\ LET ps == Last.parts
         n == Len(ps)
     IN IF n > 0 /\ ps[n].type = "text"
        THEN /\ Len(ps[n].text) < MaxDeltas
             /\ SetParts([ps EXCEPT ![n].text = Append(@, Delta)])
        ELSE /\ n < MaxParts
             /\ SetParts(Append(ps, TextPart(<<Delta>>)))
  /\ UNCHANGED <<expandedResults, carried, postVars, streamVars, chatVars>>

\* tool-call-start: a tool part appears in state input-streaming
FoldToolStart(c) ==
  /\ Folding
  /\ Len(Last.parts) < MaxParts
  /\ PartOf(c) = {}
  /\ SetParts(Append(Last.parts, ToolPart(c, "input-streaming", <<>>)))
  /\ UNCHANGED <<expandedResults, carried, postVars, streamVars, chatVars>>

\* the input of the call is complete
FoldToolInput(c) ==
  /\ Folding
  /\ \E i \in PartOf(c) :
       /\ Last.parts[i].state = "input-streaming"
       /\ SetParts([Last.parts EXCEPT ![i].state = "input-available"])
  /\ UNCHANGED <<expandedResults, carried, postVars, streamVars, chatVars>>

\* tool-call-result: the value that searchWeb.execute returned
FoldToolResult(c) ==
  /\ Folding
  /\ \E i \in PartOf(c) : \E outcome \in SearchOutcomes :
       /\ Last.parts[i].state = "input-available"
       /\ SetParts([Last.parts EXCEPT ![i].state = "output-available",
                                      ![i].output = execute(outcome).value])
  /\ UNCHANGED <<expandedResults, carried, postVars, streamVars, chatVars>>

\* the tool call itself failed
FoldToolError(c) ==
  /\ Folding
  /\ \E i \in PartOf(c) :
       /\ Last.parts[i].state = "input-available"
       /\ SetParts([Last.parts EXCEPT ![i].state = "output-error"])
  /\ UNCHANGED <<expandedResults, carried, postVars, streamVars, chatVars>>

\* ---- what the page renders for a message ----
\* isToolUIPart
isToolUIPart(p) == p.type = "tool-searchWeb"

\* message.parts.find((p) => p.type === "text"), as a sequence of at most one part
RECURSIVE textPart(_)
textPart(parts) ==
  IF parts = <<>> THEN <<>>
  ELSE IF Head(parts).type = "text" THEN <<Head(parts)>> ELSE textPart(Tail(parts))

\* the text handed to ChatMessage
text(message) ==
  IF textPart(message.parts) = <<>> THEN <<>> ELSE textPart(message.parts)[1].text

\* message.parts.filter(isToolUIPart)
toolParts(message) == SelectSeq(message.parts, isToolUIPart)

\* (variant: only the last tool part is looked at)
toolRunningLast(message) ==
  LET tps == toolParts(message)
  IN tps # <<>> /\ (\/ tps[Len(tps)].state = "input-streaming"
                    \/ tps[Len(tps)].state = "input-available")

\* for (const tp of toolParts) if (tp.state === ...) toolRunning = true
RECURSIVE anyRunning(_)
anyRunning(tps) ==
  IF tps = <<>> THEN FALSE
  ELSE \/ Head(tps).state = "input-streaming" \/ Head(tps).state = "input-available"
       \/ anyRunning(Tail(tps))
toolRunning(message) == anyRunning(toolParts(message))

\* Array.isArray(tp.output): a tool part has an output once it is output-available
isArray(tp) == tp.state = "output-available"
count(tp) == IF isArray(tp) THEN Len(tp.output) ELSE 0
hasList(tp) == isArray(tp) /\ Len(tp.output) > 0

\* `${message.id}-${index}`, index counting the tool parts of the message from 0
key(message, index) == <<message.id, index>>
\* !!expandedResults[key]
isOpen(flags, k) == k \in DOMAIN flags /\ flags[k]

\* a result item: isError, and whether its title is rendered as <a href={link}>
isError(item) == item.title = "Search error" \/ item.link = ""
anchor(item) == item.link # ""

\* (variant: the new state holds the toggled key only)
ToggleResultsOnly ==
  /\ \E m \in DOMAIN messages : \E index \in 0..(Len(toolParts(messages[m])) - 1) :
       LET k == key(messages[m], index)
       IN /\ hasList(toolParts(messages[m])[index + 1])
          /\ expandedResults' = [j \in {k} |-> ~isOpen(expandedResults, k)]
  /\ UNCHANGED <<messages, carried, postVars, streamVars, chatVars>>

\* onClick of the Show/Hide button: setExpandedResults((prev) => ({ ...prev, [key]: !prev[key] }))
ToggleResults ==
  /\ \E m \in DOMAIN messages : \E index \in 0..(Len(toolParts(messages[m])) - 1) :
       LET k == key(messages[m], index)
       IN /\ hasList(toolParts(messages[m])[index + 1])
          /\ expandedResults' =
               [j \in DOMAIN expandedResults \cup {k} |->
                  IF j = k THEN ~isOpen(expandedResults, k) ELSE expandedResults[j]]
  /\ UNCHANGED <<messages, carried, postVars, streamVars, chatVars>>

\* (variant: the expand flags outlive the page)
RemountKeepsFlags ==
  /\ input' = <<>>
  /\ status' = "ready"
  /\ isAuthenticated' = FALSE
  /\ showSignInModal' = FALSE
  /\ inFlight' = 0
  /\ sent' = 0
  /\ awaiting' = 0
  /\ messages' = <<>>
  /\ carried' = {k \in DOMAIN expandedResults : expandedResults[k]}
  /\ UNCHANGED <<expandedResults, postVars, streamVars>>

\* ChatPage is mounted anew (reload, navigation back to the page): every hook
\* starts from its initial value. The page has no other way to replace its
\* messages: it passes no id to useChat and never calls setMessages.
Remount ==
  /\ input' = <<>>
  /\ status' = "ready"
  /\ isAuthenticated' = FALSE
  /\ showSignInModal' = FALSE
  /\ inFlight' = 0
  /\ sent' = 0
  /\ awaiting' = 0
  /\ messages' = <<>>
  /\ expandedResults' = NoFlags
  /\ carried' = {k \in DOMAIN expandedResults : expandedResults[k]}
  /\ UNCHANGED <<postVars, streamVars>>

\* the page just after its first message was sent
Submitted ==
  /\ input = <<"a">>
  /\ status = "submitted"
  /\ isAuthenticated = TRUE
  /\ showSignInModal = FALSE
  /\ inFlight = 1
  /\ sent = 1
  /\ awaiting = 1

(* --------------------------- specifications ---------------------------- *)
vars == <<req, requestLogs, now, served, gateSeq, windowPeak,
          phase, gen, steps, attempt, deltas, calls, failure, wire, rxStarted, rxResults,
          aborted,
          input, status, isAuthenticated, showSignInModal, inFlight, sent, awaiting,
          messages, expandedResults, carried>>

Init == InitPost /\ InitStream /\ InitChat /\ InitPage

\* a response is read by the page that has sent its first message
InitRender == InitPost /\ InitStream /\ Submitted /\ InitPage

NextPost == Tick \/ \E r \in Slots : Start(r) \/ Step(r)

\* requests handled one after another, each within one day
NextSerial == (Quiet /\ Tick) \/ \E r \in Slots : (Quiet /\ Start(r)) \/ Step(r)

NextStream ==
  \/ BeginStream \/ ModelCallOk \/ ModelCallRetry \/ ModelCallFail
  \/ TextDelta \/ ToolCallStart \/ ModelStepEnd \/ StepFinish \/ Finish \/ Deliver
  \/ ClientAbort
  \/ \E k \in 1..MaxCalls : ToolInputReady(k) \/ ToolSettle(k)

SpecPost == Init /\ [][NextPost]_vars
SpecSerial == Init /\ [][NextSerial]_vars
NextChat ==
  \/ SetInput \/ SessionChange \/ FormSubmit \/ FormSubmitResume \/ CloseModal
  \/ StreamFirstChunk \/ StreamEnd \/ StreamError

SpecStream == Init /\ [][NextStream]_vars
SpecChat == Init /\ [][NextChat]_vars

NextRender ==
  \/ StreamFirstChunk \/ FoldTextDelta \/ StreamEnd \/ StreamError
  \/ ToggleResults \/ Remount
  \/ \E c \in ToolCallIds :
       FoldToolStart(c) \/ FoldToolInput(c) \/ FoldToolResult(c) \/ FoldToolError(c)

SpecRender == InitRender /\ [][NextRender]_vars

(* ------------------------- claims on POST ----------------------------- *)
\* rows of one identity created on one day, counted from the table itself
DayOf(t) == t \div TicksPerDay
EventsOn(uid, day) ==
  SumRows(requestLogs,
          {row \in DOMAIN requestLogs : row.userId = uid /\ DayOf(row.createdAt) = day})

\* C1: with requests handled one after another within a day, the Nth request of
\* a non-privileged identity that reaches the rate limit is allowed (200, the
\* model is called) for N <= DAILY_LIMIT and denied (429) for N = DAILY_LIMIT+1;
\* a request of a privileged identity is allowed whatever the log holds.
C1_NthRequest ==
  \A r \in Slots :
    (req[r].pc = "done" /\ req[r].ordinal > 0) =>
      IF req[r].isAdmin
      THEN req[r].status = 200 /\ req[r].modelCalled
      ELSE /\ (req[r].ordinal <= DAILY_LIMIT => req[r].status = 200 /\ req[r].modelCalled)
           /\ (req[r].ordinal = DAILY_LIMIT + 1 => req[r].status = 429)

C1_Witness ==
  \E r \in Slots :
    /\ req[r].pc = "done" /\ ~req[r].isAdmin
    /\ req[r].ordinal = DAILY_LIMIT + 1 /\ req[r].status = 429
    /\ EventsOn(req[r].userId, DayOf(now)) = DAILY_LIMIT

\* C2: a non-privileged request whose count query returned DAILY_LIMIT or more
\* is answered 429 "Daily request limit reached", has recorded no event and has
\* started no model call.
C2_DeniedHasNoEffect ==
  \A r \in Slots :
    (~req[r].isAdmin /\ req[r].reqCount # NotQueried /\ req[r].reqCount >= DAILY_LIMIT) =>
      /\ req[r].pc = "done"
      /\ req[r].status = 429
      /\ req[r].error = "Daily request limit reached"
      /\ req[r].inserted = 0
      /\ ~req[r].modelCalled

C2_Witness ==
  \E r \in Slots :
    /\ req[r].status = 429 /\ req[r].reqCount = DAILY_LIMIT
    /\ EventsOn(req[r].userId, DayOf(req[r].countedAt)) = DAILY_LIMIT

\* C3: a request whose identity is not resolved (no session user id, or an id
\* with no row in users) ends with 401, never 429, and makes no count query,
\* records no event and starts no model call.
Unresolved(r) == req[r].pc \notin {"idle", "auth"} /\ req[r].userId \notin UserIds

C3_UnresolvedIs401 ==
  \A r \in Slots :
    Unresolved(r) =>
      /\ req[r].pc \in {"lookup", "done"}
      /\ req[r].pc = "done" => (req[r].status = 401 /\ req[r].status # 429)
      /\ req[r].reqCount = NotQueried
      /\ req[r].inserted = 0
      /\ ~req[r].modelCalled

C3_Witness ==
  \E r, g \in Slots :
    /\ req[r].pc = "done" /\ req[r].userId = NoSession /\ req[r].error = "Unauthorized"
    /\ req[g].pc = "done" /\ req[g].userId = "ghost" /\ req[g].error = "User not found"

\* C7: whatever the interleaving, a denied request read a count of at least
\* DAILY_LIMIT, and the table really holds at least that many events of its
\* identity for the day of the read: no request is denied on a count below the
\* limit.
C7_NoFalseDenial ==
  \A r \in Slots :
    req[r].status = 429 =>
      /\ req[r].reqCount >= DAILY_LIMIT
      /\ EventsOn(req[r].userId, DayOf(req[r].countedAt)) >= req[r].reqCount

\* one request is denied while another of the same identity, which read a count
\* below the limit, has not yet recorded its event
C7_Witness ==
  \E r, o \in Slots :
    /\ r # o /\ req[r].userId = req[o].userId
    /\ req[r].status = 429
    /\ req[o].pc = "insert" /\ req[o].reqCount # NotQueried /\ req[o].reqCount < DAILY_LIMIT

\* rows of one identity, whatever their day
EventsOf(logs, uid) == SumRows(logs, {row \in DOMAIN logs : row.userId = uid})
Total(logs) == SumRows(logs, DOMAIN logs)

C16_OneEventPerAllowed ==
  [][/\ \A r \in Slots :
          /\ req'[r].inserted <= 1
          /\ req'[r].modelCalled => req'[r].inserted = 1
          /\ (req[r].pc = "insert" /\ req'[r].pc = "done") =>
               /\ req'[r].status = 200 /\ req'[r].modelCalled
               /\ EventsOf(requestLogs', req[r].userId)
                    = EventsOf(requestLogs, req[r].userId) + 1
     /\ \A row \in DOMAIN requestLogs :
          row \in DOMAIN requestLogs' /\ requestLogs'[row] >= requestLogs[row]
     /\ Total(requestLogs') <= Total(requestLogs) + 1
    ]_vars

C16_Witness ==
  \E r, a \in Slots :
    /\ req[a].isAdmin /\ req[a].status = 200 /\ req[a].inserted = 1
    /\ ~req[r].isAdmin /\ req[r].status = 200 /\ req[r].inserted = 1
    /\ EventsOf(requestLogs, req[a].userId) >= 1
    /\ EventsOf(requestLogs, req[r].userId) >= 1

\* C20: the events recorded for a non-privileged identity on one day never
\* exceed DAILY_LIMIT + K - 1, where K is the most requests of that identity
\* that were at once between their count query and their insert (K = 1 when
\* none overlapped, so then never more than DAILY_LIMIT).
AtLeastOne(k) == IF k < 1 THEN 1 ELSE k

C20_OverAdmissionBound ==
  \A u \in UserIds : \A d \in 0..DayOf(MaxNow) :
    ~users[u].isAdmin =>
      EventsOn(u, d) <= DAILY_LIMIT + AtLeastOne(windowPeak[u]) - 1

\* two overlapping requests have both been recorded: one more than the limit
C20_Witness ==
  \E u \in UserIds : \E d \in 0..DayOf(MaxNow) :
    /\ ~users[u].isAdmin /\ windowPeak[u] = 2
    /\ EventsOn(u, d) = DAILY_LIMIT + 1

(* ---------------------- claims on the step loop ------------------------ *)
\* C4: every tool call whose search failed (network error, provider error,
\* cancellation) has as output exactly one item titled "Search error" with an
\* empty link, in state output-available (execute did not throw); and a request
\* fails only through its model call, never through a tool call.
C4_ToolFailureIsAnItem ==
  /\ \A k \in DOMAIN calls :
        calls[k].failed =>
          /\ calls[k].state = "output-available"
          /\ Len(calls[k].output) = 1
          /\ calls[k].output[1].title = "Search error"
          /\ calls[k].output[1].link = ""
  /\ phase = "Failed" =>
        /\ gen = "call"
        /\ failure \in {"retries exhausted", "not retryable"}

\* the generation has reached done with a failed tool call in its last step
C4_Witness ==
  /\ phase = "Finished"
  /\ \E k \in DOMAIN calls : calls[k].failed /\ calls[k].output[1].snippet = "aborted"

\* C5: the client never holds a tool-call-result of a call whose tool-call-start
\* it has not received, and a tool-call-result waiting in the response stream
\* has its tool-call-start ahead of it or already received.
C5_ResultAfterStart ==
  /\ rxResults \subseteq rxStarted
  /\ \A i \in DOMAIN wire :
        wire[i].type = "tool-call-result" =>
          \/ <<wire[i].step, wire[i].call>> \in rxStarted
          \/ \E j \in 1..(i - 1) :
                /\ wire[j].type = "tool-call-start"
                /\ wire[j].step = wire[i].step /\ wire[j].call = wire[i].call

C5_Witness == rxResults # {} /\ steps >= 1

\* C6: at most 10 step boundaries are emitted; once the 10th is emitted no
\* further step starts, the request is closing or Finished, and it has not
\* failed.
C6_StepCap ==
  /\ steps <= 10
  /\ steps = 10 =>
        /\ \/ phase = "Generating" /\ gen = "closing"
           \/ phase = "Finished"
        /\ failure = ""

\* ten steps that each requested a tool call, then done
C6_Witness ==
  /\ steps = 10 /\ phase = "Finished" /\ calls # NoCalls /\ wire = <<>>

\* C8: a retry raises the retry count to at most 3 and writes no event; a model
\* call that succeeds leaves no trace of earlier failures; a request becomes
\* Failed by writing exactly one error event, after 3 retries when the failure
\* is retryable and without a retry in that step when it is not.
C8_Retry ==
  [][/\ attempt' > attempt =>
          attempt' <= 3 /\ wire' = wire /\ phase' = phase /\ failure' = ""
     /\ (gen = "call" /\ gen' = "stream") =>
          attempt' = 0 /\ wire' = wire /\ failure' = ""
     /\ (phase # "Failed" /\ phase' = "Failed") =>
          /\ Len(wire') = Len(wire) + 1
          /\ SubSeq(wire', 1, Len(wire)) = wire
          /\ wire'[Len(wire')].type = "error"
          /\ wire'[Len(wire')].text = failure'
          /\ failure' = "retries exhausted" => attempt = 3
          /\ failure' = "not retryable" => attempt' = attempt
    ]_vars

C8_Witness == phase = "Failed" /\ failure = "retries exhausted" /\ attempt = 3 /\ steps >= 1

\* C9: once a request is Finished or Failed its state never changes again and
\* nothing more is written to its response stream (the client may still read
\* what is buffered).
C9_Terminal ==
  [][Terminal =>
       /\ UNCHANGED <<phase, gen, steps, attempt, deltas, calls, failure>>
       /\ wire' = wire \/ wire' = Tail(wire)
    ]_vars

C9_Witness == Terminal /\ wire = <<>> /\ steps >= 1 /\ failure # ""

\* C12: when the client aborts the request while a tool invocation is running,
\* the abort signal that execute was handed fires, and from then on no tool
\* invocation of the aborted request is running without a fired signal.
ToolRunning(k) == phase = "ToolExecuting" /\ calls[k].state = "input-available"

C12_AbortReachesTool ==
  [][\A k \in DOMAIN calls :
       (~aborted /\ aborted' /\ ToolRunning(k)) =>
         (AbortSignalFired' /\ calls'[k] = calls[k])]_vars

(* ---------------------- claims on the chat page ------------------------ *)
\* C10: at most one request of the conversation view is in flight; a request is
\* in flight exactly while the status is submitted or streaming, and then the
\* input and the submit control are disabled.
C10_OneInFlight ==
  /\ inFlight <= 1
  /\ inFlight = 1 <=> Busy
  /\ Busy => SubmitDisabled /\ InputDisabled

\* a second message has been sent, after the first stream ended, and is in flight
C10_Witness == sent = 2 /\ inFlight = 1 /\ status = "streaming" /\ Trim(input) # <<>>

(* -------------------- claims on the rendered page ---------------------- *)
\* the text of all text parts of a message, in order: the deltas received for it
RECURSIVE AllText(_)
AllText(parts) ==
  IF parts = <<>> THEN <<>>
  ELSE (IF Head(parts).type = "text" THEN Head(parts).text ELSE <<>>) \o AllText(Tail(parts))

\* C11: when the stream breaks off or carries an error, the status becomes error,
\* no part folded so far is dropped, and the text displayed for each message is
\* the concatenation of the text deltas received for it.
C11_FailureKeepsFolded ==
  [][(status # "error" /\ status' = "error") =>
       /\ messages' = messages
       /\ \A i \in DOMAIN messages' :
            text(messages'[i]) = AllText(messages[i].parts)]_vars

\* C13: in a message where text follows a tool part whose output is the error
\* item, the text displayed is the text of all text parts of the message.
C13_TextAfterToolShown ==
  \A i \in DOMAIN messages :
    LET ps == messages[i].parts
    IN (\E a, b \in DOMAIN ps :
          /\ a < b
          /\ isToolUIPart(ps[a]) /\ ps[a].state = "output-available"
          /\ \E m \in FailureKinds : ps[a].output = <<ErrorItem(m)>>
          /\ ps[b].type = "text")
         => text(messages[i]) = AllText(ps)

\* C14: the running indicator of a message is on exactly when one of its tool
\* parts is in neither terminal state, and the badge of a tool part reads the
\* number of items of its output.
C14_RunningIndicator ==
  \A i \in DOMAIN messages :
    LET tps == toolParts(messages[i])
    IN /\ toolRunning(messages[i]) =
            (\E j \in DOMAIN tps : tps[j].state \notin {"output-available", "output-error"})
       /\ \A j \in DOMAIN tps : count(tps[j]) = Len(tps[j].output)

\* a call is still running after a later call of the message returned one result
C14_Witness ==
  \E i \in DOMAIN messages :
    LET tps == toolParts(messages[i])
    IN /\ Len(tps) = 2
       /\ tps[1].state = "input-available"
       /\ tps[2].state = "output-available" /\ count(tps[2]) = 1
       /\ toolRunning(messages[i])

\* C17: no result item that is an error item (empty link, or title "Search
\* error") is rendered with a hyperlink.
C17_ErrorItemsNeverLink ==
  \A i \in DOMAIN messages :
    LET tps == toolParts(messages[i])
    IN \A j \in DOMAIN tps :
         hasList(tps[j]) =>
           \A n \in DOMAIN tps[j].output :
             isError(tps[j].output[n]) => ~anchor(tps[j].output[n])

\* every key a result list can have, and the keys whose list is expanded
AllKeys == {<<id, index>> : id \in MsgIds, index \in 0..(MaxParts - 1)}
Open(flags) == {k \in AllKeys : isOpen(flags, k)}
\* the keys of the lists that the page offers: tool parts with one item or more
ListKeys(msgs) ==
  {k \in AllKeys : \E i \in DOMAIN msgs :
     /\ k = key(msgs[i], k[2])
     /\ k[2] < Len(toolParts(msgs[i]))
     /\ hasList(toolParts(msgs[i])[k[2] + 1])}

\* C18: within one conversation a step changes the expanded flag of at most one
\* key, only while the messages stay as they are, and only lists that are
\* offered are expanded: a list is collapsed until it is toggled, and stream
\* events change no flag.
C18_ToggleOneKey ==
  [][messages' # <<>> =>
       LET changed == (Open(expandedResults) \ Open(expandedResults'))
                        \cup (Open(expandedResults') \ Open(expandedResults))
       IN /\ Cardinality(changed) <= 1
          /\ changed # {} => messages' = messages
          /\ Open(expandedResults') \subseteq ListKeys(messages')]_vars

\* one list is expanded while another, toggled twice, is collapsed again
C18_Witness ==
  \E k1, k2 \in DOMAIN expandedResults :
    k1 # k2 /\ expandedResults[k1] /\ ~expandedResults[k2]

====
